---- MODULE Spec2Model ----
(***************************************************************************)
(* Model of plugins/modules/page.py: one invocation of the Wiki.js `page`  *)
(* module (main) against a remote Wiki.js service.                         *)
(*                                                                         *)
(* A Python dict is a function whose DOMAIN is its key set.  An argument   *)
(* of module.params is None (the unset marker) or Some(v).  The fields     *)
(* description, editor, isPrivate, isPublished, content, publishEndDate,   *)
(* publishStartDate, scriptCss and scriptJs are                            *)
(* handled by the code exactly as title is (no line of page.py after the   *)
(* argument spec names them), so title stands for them.                    *)
(***************************************************************************)
EXTENDS Integers, Sequences, FiniteSets, TLC

VARIABLES
    mp,         \* module.params
    server,     \* the pages the remote service holds
    pc,         \* position in main
    id,         \* main's id
    params,     \* _create_page's / _update_page's params
    fetched,    \* the page as fetch_page returned it
    oldpage,    \* _update_page's oldpage after line 185
    stripped,   \* _update_page's stripped
    page,       \* the page the last successful mutating call returned
    calls,      \* the remote calls issued so far, in order
    result,     \* the result dict handed to fail_json / exit_json
    outcome,    \* "running", "exit_json", "fail_json" or "exception"
    raised,     \* type name of the exception that left main
    run         \* number of the invocation of main (1 or 2)

vars == <<mp, server, pc, id, params, fetched, oldpage, stripped, page, calls,
          result, outcome, raised, run>>

\* ---- bounds ----
MaxId == 2
MaxTag == 3

\* ---- values ----
None == <<>>
Some(v) == <<v>>
EmptyDict == [k \in {} |-> TRUE]

Ids == 0..MaxId
Tags == 1..MaxTag
Paths == {"/a", "/b"}
Locales == {"en", "fr"}
DesiredTitles == {"T"}
ActualTitles == {"T", "U"}
RemoteErrors == {"ConnectionError"}

\* a dict without key k (del(d[k]))
Del(d, k) == [x \in DOMAIN d \ {k} |-> d[x]]
\* a dict with d[k] = v (d[k] = v)
Put(d, k, v) == [x \in DOMAIN d \cup {k} |-> IF x = k THEN v ELSE d[x]]

\* module.params as AnsibleModule builds it from module_args and api_argspec:
\* every declared key is present, None when not supplied and without default
ModuleParams ==
    [api_url : {Some("url")},
     api_key : {Some("key")},
     state : {Some("present"), Some("absent")},
     id : {None} \cup {Some(i) : i \in Ids},
     title : {None} \cup {Some(t) : t \in DesiredTitles},
     path : {None} \cup {Some(p) : p \in Paths},
     locale : {Some(l) : l \in Locales},
     tags : {Some(t) : t \in SUBSET Tags}]

\* pages the remote service may hold before the invocation
ServerPages ==
    [id : Ids, path : Paths, locale : Locales, tags : SUBSET Tags]
    \cup
    [id : Ids, path : Paths, locale : Locales, tags : SUBSET Tags,
     title : ActualTitles]

\* ---- _param_converter ----
\* lines 135-149 without line 147, del(params['state'])
_param_converter_keepState(module_params) ==
    LET nonNone == {key \in DOMAIN module_params : module_params[key] # None}
        copied == [key \in nonNone |-> module_params[key][1]]
    IN  Del(Del(copied, "api_url"), "api_key")

_param_converter(module_params) ==
    LET nonNone == {key \in DOMAIN module_params : module_params[key] # None}
        copied == [key \in nonNone |-> module_params[key][1]]
    IN  Del(Del(Del(copied, "api_url"), "api_key"), "state")

Init ==
    /\ mp \in ModuleParams
    /\ server \in {{}} \cup {{p} : p \in ServerPages}
    /\ pc = "main"
    /\ id = 0
    /\ params = EmptyDict
    /\ fetched = EmptyDict
    /\ oldpage = EmptyDict
    /\ stripped = EmptyDict
    /\ page = EmptyDict
    /\ calls = <<>>
    /\ result = EmptyDict
    /\ outcome = "running"
    /\ raised = "none"
    /\ run = 1

\* ---- the remote service (wikijs.WikiJs) ----
\* the stored page after movePage(id, path, locale)
Moved(p, newpath, newlocale) == Put(Put(p, "path", newpath), "locale", newlocale)

\* the stored page after updatePage(id, **fields): sent fields are stored,
\* sent tags are added to the page's tags
Applied(p, fields) ==
    [k \in DOMAIN p \cup (DOMAIN fields \ {"id"}) |->
        IF k = "tags"
        THEN p.tags \cup (IF "tags" \in DOMAIN fields THEN fields.tags ELSE {})
        ELSE IF k \in DOMAIN fields THEN fields[k] ELSE p[k]]

\* ids the service can assign to a new page
FreeIds == (1..MaxId) \ {p.id : p \in server}
NewId == CHOOSE i \in FreeIds : \A j \in FreeIds : i <= j

\* ---- results ----
Failed(msg, e) == [msg |-> msg, exception |-> e, debug |-> "traceback"]

\* main, lines 252-255 without the fail_json branch
Report_alwaysExit(res) == "exit_json"

\* main, lines 252-255: fail_json when the result has an exception key
Report(res) == IF "exception" \in DOMAIN res THEN "fail_json" ELSE "exit_json"

\* an exception nothing catches leaves main
Escapes(e) ==
    /\ pc' = "done"
    /\ outcome' = "exception"
    /\ raised' = e

Returns(res) ==
    /\ pc' = "done"
    /\ result' = res
    /\ outcome' = Report(res)
    /\ raised' = "none"

\* ---- main, line 245: `module.params['id'] or _find_page_by_path(...)` ----
Truthy(optid) == optid # None /\ optid[1] # 0

UseExplicitId ==
    /\ pc = "main"
    /\ Truthy(mp.id)
    /\ id' = mp.id[1]
    /\ pc' = "dispatch"
    /\ UNCHANGED <<run, mp, server, params, fetched, oldpage, stripped, page,
                   calls, result, outcome, raised>>

\* ---- _find_page_by_path ----
FindPageByPath ==
    /\ pc = "main"
    /\ ~Truthy(mp.id)
    /\ LET matches == {p \in server : /\ Some(p.path) = mp.path
                                      /\ Some(p.locale) = mp.locale}
       IN \E out \in (IF matches = {} THEN {"PageNotFound"} ELSE {"ok"})
                     \cup RemoteErrors :
            /\ calls' = Append(calls, [op |-> "fetch_page_by_path",
                                       path |-> mp.path, locale |-> mp.locale,
                                       out |-> out])
            /\ IF out = "ok"
               THEN /\ \E p \in matches : id' = p.id
                    /\ pc' = "dispatch"
                    /\ UNCHANGED <<result, outcome, raised>>
               ELSE IF out = "PageNotFound"
               THEN /\ id' = 0
                    /\ pc' = "dispatch"
                    /\ UNCHANGED <<result, outcome, raised>>
               ELSE /\ Escapes(out)
                    /\ UNCHANGED <<id, result>>
    /\ UNCHANGED <<run, mp, server, params, fetched, oldpage, stripped, page>>

\* ---- _create_page ----
\* lines 165-167 without the removal of id
CreateParams_keepId(module_params) == _param_converter(module_params)

\* lines 165-167
CreateParams(module_params) ==
    LET p == _param_converter(module_params)
    IN  IF "id" \in DOMAIN p THEN Del(p, "id") ELSE p

CreatePage ==
    /\ pc = "dispatch"
    /\ id = 0
    /\ LET cparams == CreateParams(mp)
           \* the service stores a page only under a path no page has yet
           accepts == /\ "path" \in DOMAIN cparams
                      /\ FreeIds # {}
                      /\ \A p \in server : ~(/\ p.path = cparams.path
                                             /\ p.locale = cparams.locale)
       IN \E out \in (IF accepts THEN {"ok"} ELSE {}) \cup RemoteErrors :
            /\ params' = cparams
            /\ calls' = Append(calls, [op |-> "create_page", fields |-> cparams,
                                       out |-> out])
            /\ IF out = "ok"
               THEN LET created == Put(cparams, "id", NewId)
                    IN  /\ server' = server \cup {created}
                        /\ page' = created
                        /\ Returns([msg |-> <<"Created page with path",
                                              created.path, created.id>>,
                                    changed |-> TRUE,
                                    page |-> created])
               ELSE /\ UNCHANGED <<server, page>>
                    /\ IF "path" \in DOMAIN cparams
                       THEN Returns(Failed(<<"Failed to create page",
                                             cparams.path>>, out))
                       ELSE \* params['path'] raises inside the handler
                            /\ Escapes("KeyError")
                            /\ UNCHANGED result
    /\ UNCHANGED <<run, mp, id, fetched, oldpage, stripped>>

\* ---- _update_page ----
\* line 183 sending the whole desired tag list
TagDelta_allDesired(desiredTags, actualTags) == desiredTags

\* line 183
TagDelta(desiredTags, actualTags) == desiredTags \ actualTags

\* line 187 without the removal of identical entries
ItemsDiff_noStrip(d, old) == d

\* line 187 comparing only the keys both dicts have
ItemsDiff_commonKeys(d, old) ==
    [k \in {x \in DOMAIN d : x \in DOMAIN old /\ old[x] # d[x]} |-> d[k]]

\* line 187: dict(params.items() - oldpage.items())
ItemsDiff(d, old) ==
    [k \in {x \in DOMAIN d : ~(x \in DOMAIN old /\ old[x] = d[x])} |-> d[k]]

\* lines 183-190 without the `len(tags) > 0` test of line 189
Stripped_alwaysTags(desired, actual) ==
    Put(ItemsDiff(Del(desired, "tags"), Del(actual, "tags")), "tags",
        TagDelta(desired.tags, actual.tags))

\* lines 183-190
Stripped(desired, actual) ==
    LET tags == TagDelta(desired.tags, actual.tags)
        diff == ItemsDiff(Del(desired, "tags"), Del(actual, "tags"))
    IN  IF tags # {} THEN Put(diff, "tags", tags) ELSE diff

\* line 202
NeedsMove(delta) == "path" \in DOMAIN delta \/ "locale" \in DOMAIN delta

\* lines 177-178 without line 178, params['id'] = id
UpdateParams_noId(module_params, pageid) == _param_converter(module_params)

\* lines 177-178
UpdateParams(module_params, pageid) ==
    Put(_param_converter(module_params), "id", pageid)

\* lines 177-200
FetchPage ==
    /\ pc = "dispatch"
    /\ id # 0
    /\ LET params1 == UpdateParams(mp, id)
           found == {p \in server : p.id = id}
       IN \E out \in (IF found = {} THEN {"PageNotFound"} ELSE {"ok"})
                     \cup RemoteErrors :
            /\ calls' = Append(calls, [op |-> "fetch_page", id |-> id,
                                       out |-> out])
            /\ IF out = "ok"
               THEN \E got \in found :
                    LET delta == Stripped(params1, got)
                        params2 == Del(params1, "tags")
                        old2 == Del(got, "tags")
                    IN  /\ params' = params2
                        /\ fetched' = got
                        /\ oldpage' = old2
                        /\ stripped' = delta
                        /\ IF DOMAIN delta = {}
                           THEN Returns([msg |-> <<"No need to update page.">>,
                                         changed |-> FALSE,
                                         page |-> old2,
                                         oldpage |-> old2,
                                         incomingpage |-> params2,
                                         changes |-> delta])
                           ELSE /\ pc' = IF NeedsMove(delta) THEN "move"
                                                             ELSE "update"
                                /\ UNCHANGED <<result, outcome, raised>>
               ELSE /\ params' = params1
                    /\ UNCHANGED <<fetched, oldpage, stripped>>
                    /\ Returns(Failed(<<"Failed to update page with id", id>>,
                                      out))
    /\ UNCHANGED <<run, mp, server, id, page>>

\* lines 202-204
MovePage ==
    /\ pc = "move"
    /\ IF "path" \in DOMAIN stripped /\ "locale" \in DOMAIN stripped
       THEN \E out \in {"ok"} \cup RemoteErrors :
            /\ calls' = Append(calls, [op |-> "move_page", id |-> id,
                                       path |-> stripped.path,
                                       locale |-> stripped.locale,
                                       out |-> out])
            /\ IF out = "ok"
               THEN LET old == CHOOSE p \in server : p.id = id
                        new == Moved(old, stripped.path, stripped.locale)
                    IN  /\ server' = (server \ {old}) \cup {new}
                        /\ page' = new
                        /\ pc' = "update"
                        /\ UNCHANGED <<result, outcome, raised>>
               ELSE /\ UNCHANGED <<server, page>>
                    /\ Returns(Failed(<<"Failed to update page with id", id>>,
                                      out))
       ELSE \* stripped['path'] or stripped['locale'] raises inside the try
            /\ UNCHANGED <<server, page, calls>>
            /\ Returns(Failed(<<"Failed to update page with id", id>>,
                              "KeyError"))
    /\ UNCHANGED <<run, mp, id, params, fetched, oldpage, stripped>>

\* line 206 without the fields move_page already applied
UpdateFields_withoutMoved(delta) ==
    [k \in DOMAIN delta \ {"path", "locale"} |-> delta[k]]

\* line 206: the keyword arguments **stripped
UpdateFields(delta) == delta

\* lines 206-218
UpdatePage ==
    /\ pc = "update"
    /\ \E out \in {"ok"} \cup RemoteErrors :
            /\ calls' = Append(calls, [op |-> "update_page", id |-> id,
                                       fields |-> UpdateFields(stripped),
                                       out |-> out])
            /\ IF out = "ok"
               THEN LET old == CHOOSE p \in server : p.id = id
                        new == Applied(old, UpdateFields(stripped))
                    IN  /\ server' = (server \ {old}) \cup {new}
                        /\ page' = new
                        /\ IF "path" \in DOMAIN params
                           THEN Returns([msg |-> <<"Updated page with id", id,
                                                   params.path>>,
                                         changed |-> TRUE,
                                         page |-> new,
                                         oldpage |-> oldpage,
                                         incomingpage |-> params,
                                         changes |-> stripped])
                           ELSE \* params['path'] raises outside the try
                                /\ Escapes("KeyError")
                                /\ UNCHANGED result
               ELSE /\ UNCHANGED <<server, page>>
                    /\ Returns(Failed(<<"Failed to update page with id", id>>,
                                      out))
    /\ UNCHANGED <<run, mp, id, params, fetched, oldpage, stripped>>

Next ==
    \/ UseExplicitId
    \/ FindPageByPath
    \/ CreatePage
    \/ FetchPage
    \/ MovePage
    \/ UpdatePage


Spec == Init /\ [][Next]_vars

\* the host runs main a second time with the same module.params, after an
\* invocation that reported changed=True; nothing but the service's pages
\* survives
Reinvoke ==
    /\ pc = "done"
    /\ run = 1
    /\ outcome = "exit_json"
    /\ result.changed = TRUE
    /\ run' = 2
    /\ pc' = "main"
    /\ id' = 0
    /\ params' = EmptyDict
    /\ fetched' = EmptyDict
    /\ oldpage' = EmptyDict
    /\ stripped' = EmptyDict
    /\ page' = EmptyDict
    /\ calls' = <<>>
    /\ result' = EmptyDict
    /\ outcome' = "running"
    /\ raised' = "none"
    /\ UNCHANGED <<mp, server>>

NextTwice ==
    \/ UseExplicitId
    \/ FindPageByPath
    \/ CreatePage
    \/ FetchPage
    \/ MovePage
    \/ UpdatePage
    \/ Reinvoke

SpecTwice == Init /\ [][NextTwice]_vars

\* ---- properties ----
Calls(opname) == {i \in 1..Len(calls) : calls[i].op = opname}
Mutating == Calls("create_page") \cup Calls("move_page") \cup Calls("update_page")
FetchOk == \E i \in Calls("fetch_page") : calls[i].out = "ok"
IsNoOp == /\ outcome = "exit_json"
          /\ result.changed = FALSE
          /\ result.msg[1] = "No need to update page."
IsUpdated == /\ outcome = "exit_json"
             /\ result.changed = TRUE
             /\ result.msg[1] = "Updated page with id"
IsFailed == /\ outcome = "fail_json"
            /\ "exception" \in DOMAIN result
            /\ "changed" \notin DOMAIN result

\* C1: on the update path, a Delta containing path or locale (either alone
\* or both) gives exactly one movePage(id, desired path, desired locale)
\* call, issued before updatePage, and the invocation ends Updated with
\* changed=true when both calls succeed; a Delta with neither key never
\* calls movePage.
C1_MoveTrigger ==
    (pc = "done" /\ FetchOk /\ DOMAIN stripped # {}) =>
        IF NeedsMove(stripped)
        THEN /\ Cardinality(Calls("move_page")) = 1
             /\ \A i \in Calls("move_page") :
                    /\ calls[i].id = id
                    /\ Some(calls[i].path) = mp.path
                    /\ Some(calls[i].locale) = mp.locale
                    /\ \A j \in Calls("update_page") : i < j
                    /\ (/\ calls[i].out = "ok"
                        /\ \E j \in Calls("update_page") : calls[j].out = "ok")
                       => IsUpdated
        ELSE Calls("move_page") = {}

\* C2: when an existing page is resolved and fetched, every field of the
\* normalized desired state equals the same field of the fetched page and
\* the desired tags are a subset of the page's tags, the invocation ends
\* NoOp with changed=false and no createPage, movePage or updatePage call.
DesiredEqualsActual ==
    LET desired == _param_converter(mp)
    IN  /\ \A k \in DOMAIN desired \ {"tags"} :
               k \in DOMAIN fetched /\ fetched[k] = desired[k]
        /\ desired.tags \subseteq fetched.tags

C2_NoOpIdempotence ==
    (FetchOk /\ DesiredEqualsActual) =>
        /\ pc = "done"
        /\ IsNoOp
        /\ Mutating = {}

C2_Witness ==
    /\ pc = "done"
    /\ FetchOk
    /\ DesiredEqualsActual
    /\ IsNoOp
    /\ mp.title # None
    /\ mp.tags[1] # {}
    /\ mp.tags[1] # fetched.tags

\* C3: the tags sent to updatePage are exactly the desired tags minus the
\* tags of the fetched page, and when that difference is empty the Delta
\* has no tags key.
C3_TagAdditivity ==
    FetchOk =>
        LET want == {t \in mp.tags[1] : t \notin fetched.tags}
        IN  /\ want = {} => "tags" \notin DOMAIN stripped
            /\ want # {} => ("tags" \in DOMAIN stripped /\ stripped.tags = want)
            /\ \A i \in Calls("update_page") :
                   /\ want = {} => "tags" \notin DOMAIN calls[i].fields
                   /\ want # {} => /\ "tags" \in DOMAIN calls[i].fields
                                   /\ calls[i].fields.tags = want

C3_Witness ==
    /\ FetchOk
    /\ \E i \in Calls("update_page") :
           /\ "tags" \in DOMAIN calls[i].fields
           /\ calls[i].fields.tags # mp.tags[1]
           /\ \E t \in fetched.tags : t \notin mp.tags[1]
           /\ \E t \in fetched.tags : t \in mp.tags[1]

\* C4: whenever an explicit id is supplied, whatever its value and with or
\* without a path, no fetchPageByPath lookup is performed and the supplied
\* id is the one used for fetchPage, movePage and updatePage.
C4_AddressPrecedence ==
    mp.id # None =>
        /\ Calls("fetch_page_by_path") = {}
        /\ \A i \in Calls("fetch_page") \cup Calls("move_page")
                    \cup Calls("update_page") : calls[i].id = mp.id[1]

\* C5: the argument record passed to createPage never has an id key,
\* whatever id was present in the input.
C5_CreateStripsId ==
    \A i \in Calls("create_page") : "id" \notin DOMAIN calls[i].fields

C5_Witness ==
    /\ mp.id # None
    /\ \E i \in Calls("create_page") :
           calls[i].out = "ok" /\ "id" \notin DOMAIN calls[i].fields

\* C6: every invocation ends in a structured result (exit_json or
\* fail_json); no exception leaves main.
C6_NoEscape ==
    /\ outcome # "exception"
    /\ pc = "done" => outcome \in {"exit_json", "fail_json"}

\* C7: whenever createPage raises, also when no path was supplied, the
\* invocation ends Failed with exception equal to the type name of the
\* error createPage raised, without changed=true and without a page.
C7_CreateFailure ==
    \A i \in Calls("create_page") :
        calls[i].out # "ok" =>
            /\ IsFailed
            /\ result.exception = calls[i].out
            /\ "page" \notin DOMAIN result

\* C8: when the path+locale lookup fails with an error other than not-found,
\* the invocation ends in a Failed result and no other remote call follows.
C8_LookupFailure ==
    \A i \in Calls("fetch_page_by_path") :
        calls[i].out \notin {"ok", "PageNotFound"} =>
            /\ IsFailed
            /\ Len(calls) = i

\* C9: whenever the Delta is non-empty and fetchPage, movePage (if issued)
\* and updatePage all succeed, the invocation ends Updated with changed=true
\* carrying the page updatePage returned, the old page, the incoming params
\* and the applied Delta, also for a page addressed by id without a path.
C9_UpdatedResult ==
    (/\ pc = "done"
     /\ FetchOk
     /\ DOMAIN stripped # {}
     /\ \A i \in 1..Len(calls) : calls[i].out = "ok"
     /\ Calls("update_page") # {}) =>
        /\ IsUpdated
        /\ result.page = page
        /\ result.oldpage = oldpage
        /\ result.incomingpage = params
        /\ result.changes = stripped

\* C10: with state=absent the invocation never creates a page and never
\* updates or moves one.
C10_AbsentNeverWrites ==
    mp.state = Some("absent") => Mutating = {}

\* C11: the remote calls of an invocation are (optional lookup, createPage)
\* or a prefix of (optional lookup, fetchPage, optional movePage,
\* updatePage) in that order, each issued at most once and at most three in
\* all; movePage is never issued in an invocation that performed a lookup
\* (the service returns to fetchPage the page the lookup found).
Op(i) == calls[i].op
C11_CallTrace ==
    LET n == Len(calls)
    IN  /\ n <= 3
        /\ \A o \in {"fetch_page_by_path", "create_page", "fetch_page",
                     "move_page", "update_page"} : Cardinality(Calls(o)) <= 1
        /\ \A i \in 1..n :
              /\ Op(i) = "fetch_page_by_path" => i = 1
              /\ Op(i) = "create_page" =>
                    /\ i = n
                    /\ \A j \in 1..(i - 1) : Op(j) = "fetch_page_by_path"
              /\ Op(i) = "fetch_page" =>
                    \A j \in 1..(i - 1) : Op(j) = "fetch_page_by_path"
              /\ Op(i) = "move_page" => (i > 1 /\ Op(i - 1) = "fetch_page")
              /\ Op(i) = "update_page" =>
                    /\ i = n
                    /\ i > 1
                    /\ Op(i - 1) \in {"fetch_page", "move_page"}
        /\ Calls("fetch_page_by_path") # {} => Calls("move_page") = {}

C11_Witness ==
    /\ pc = "done"
    /\ Len(calls) = 3
    /\ Op(1) = "fetch_page_by_path"
    /\ Op(2) = "fetch_page"
    /\ Op(3) = "update_page"
    /\ "title" \in DOMAIN calls[3].fields

\* C12: createPage is issued if and only if no id was supplied and the
\* lookup reported not-found; whenever the lookup succeeds, whatever id the
\* found page carries, fetchPage is the next call and no createPage is
\* issued; no invocation issues createPage together with fetchPage,
\* movePage or updatePage.
LookupOut(o) == \E i \in Calls("fetch_page_by_path") : calls[i].out = o
C12_PathSelection ==
    /\ Calls("create_page") # {} => (mp.id = None /\ LookupOut("PageNotFound"))
    /\ (mp.id = None /\ LookupOut("PageNotFound") /\ pc = "done")
          => Calls("create_page") # {}
    /\ LookupOut("ok") =>
          /\ Calls("create_page") = {}
          /\ pc = "done" => Calls("fetch_page") # {}
          /\ \A i \in Calls("fetch_page") : \E p \in server : p.id = calls[i].id
    /\ Calls("create_page") = {}
          \/ (Calls("fetch_page") \cup Calls("move_page")
                \cup Calls("update_page")) = {}

\* C13: on the update path a failed fetchPage, movePage or updatePage ends
\* the invocation Failed with no further remote call; when movePage
\* succeeded and updatePage failed the stored page is at the new path and
\* locale with its other fields unchanged, and the result has the shape of
\* any other update failure.
UpdatePathOps == {"fetch_page", "move_page", "update_page"}
C13_FailureStops ==
    /\ \A i \in 1..Len(calls) :
          (Op(i) \in UpdatePathOps /\ calls[i].out # "ok") =>
              /\ i = Len(calls)
              /\ pc = "done"
              /\ IsFailed
              /\ result.exception = calls[i].out
              /\ DOMAIN result = {"msg", "exception", "debug"}
              /\ result.msg = <<"Failed to update page with id", id>>
    /\ \A i \in Calls("move_page") : \A j \in Calls("update_page") :
          (calls[i].out = "ok" /\ calls[j].out # "ok") =>
              \E p \in server :
                  /\ p.id = id
                  /\ p = Moved(fetched, calls[i].path, calls[i].locale)
                  /\ p # fetched

C13_Witness ==
    /\ pc = "done"
    /\ \E i \in Calls("move_page") : calls[i].out = "ok"
    /\ \E j \in Calls("update_page") : calls[j].out # "ok"
    /\ "title" \in DOMAIN stripped

\* C14 (as claimed): the Delta without tags is exactly the pairs of the
\* desired record whose field is present in the actual record with a
\* different value; a desired field absent from the actual record is not in
\* the Delta.
DesiredNoTags == Del(Put(_param_converter(mp), "id", id), "tags")
DeltaNoTags == IF "tags" \in DOMAIN stripped THEN Del(stripped, "tags")
                                             ELSE stripped
C14_DeltaPresentOnly ==
    FetchOk =>
        /\ DOMAIN DeltaNoTags =
              {k \in DOMAIN DesiredNoTags :
                  k \in DOMAIN fetched /\ fetched[k] # DesiredNoTags[k]}
        /\ \A k \in DOMAIN DeltaNoTags : DeltaNoTags[k] = DesiredNoTags[k]

\* C14 (amended): the Delta without tags is exactly the pairs of the desired
\* record that are not pairs of the actual record: the field is absent from
\* the actual record or present with a different value; a field present
\* with an equal value is not in the Delta.
C14_DeltaComputation ==
    FetchOk =>
        /\ DOMAIN DeltaNoTags =
              {k \in DOMAIN DesiredNoTags :
                  k \notin DOMAIN fetched \/ fetched[k] # DesiredNoTags[k]}
        /\ \A k \in DOMAIN DeltaNoTags : DeltaNoTags[k] = DesiredNoTags[k]

C14_Witness ==
    /\ FetchOk
    /\ "title" \in DOMAIN DeltaNoTags
    /\ "title" \notin DOMAIN fetched
    /\ "locale" \in DOMAIN DeltaNoTags
    /\ "path" \in DOMAIN DesiredNoTags
    /\ "path" \notin DOMAIN DeltaNoTags

\* C15: updatePage is issued with exactly the computed Delta as its field
\* arguments (every Delta entry, moved path and locale included, and no
\* field whose desired value equals the actual value), addressed to the
\* resolved id; the Delta reported in the Updated result is that same set.
C15_UpdateSendsDelta ==
    \A i \in Calls("update_page") :
        /\ calls[i].id = id
        /\ calls[i].fields = stripped
        /\ \A k \in DOMAIN DesiredNoTags :
              (k \notin DOMAIN fetched \/ fetched[k] # DesiredNoTags[k])
                  => (k \in DOMAIN calls[i].fields
                      /\ calls[i].fields[k] = DesiredNoTags[k])
        /\ \A k \in DOMAIN calls[i].fields \ {"tags"} :
              ~(k \in DOMAIN fetched /\ fetched[k] = calls[i].fields[k])
        /\ IsUpdated => result.changes = calls[i].fields

C15_Witness ==
    /\ IsUpdated
    /\ \E i \in Calls("update_page") :
          /\ \E j \in Calls("move_page") : j < i
          /\ {"path", "locale", "title"} \subseteq DOMAIN calls[i].fields
          /\ result.changes = calls[i].fields

\* C16: the normalized record holds exactly the pairs of module.params whose
\* value is not None and whose key is none of api_url, api_key, state, with
\* no key added and no value altered, and module.params itself is never
\* changed.
KeptKeys == {k \in DOMAIN mp : mp[k] # None} \ {"api_url", "api_key", "state"}
NormalizedExactly ==
    /\ DOMAIN _param_converter(mp) = KeptKeys
    /\ \A k \in KeptKeys : Some(_param_converter(mp)[k]) = mp[k]
    /\ \A i \in Calls("create_page") :
          /\ DOMAIN calls[i].fields = KeptKeys \ {"id"}
          /\ \A k \in DOMAIN calls[i].fields : Some(calls[i].fields[k]) = mp[k]
    /\ FetchOk =>
          /\ DOMAIN params = (KeptKeys \cup {"id"}) \ {"tags"}
          /\ \A k \in DOMAIN params \ {"id"} : Some(params[k]) = mp[k]

C16_Normalizer == []NormalizedExactly /\ [][mp' = mp]_vars

C16_Witness ==
    /\ mp.title = None
    /\ mp.path # None
    /\ mp.id # None
    /\ \E i \in Calls("create_page") :
          /\ DOMAIN calls[i].fields = {"path", "locale", "tags"}
          /\ calls[i].fields.path = mp.path[1]

\* C17: the old page reported in an Updated or NoOp result equals the page
\* exactly as fetchPage returned it, including its tags.
C17_OldPageSnapshot ==
    (IsUpdated \/ IsNoOp) => result.oldpage = fetched

\* C18: after an invocation that ended Created or Updated, an immediately
\* following invocation with the same input, against a service that stored
\* every sent field and added the sent tags and whose calls do not fail,
\* ends NoOp with changed=false and issues no mutating remote call.
SecondRunDone ==
    /\ run = 2
    /\ pc = "done"
    /\ \A i \in 1..Len(calls) : calls[i].out \notin RemoteErrors

C18_Convergence ==
    SecondRunDone => (IsNoOp /\ Mutating = {})

C18_Witness ==
    /\ SecondRunDone
    /\ IsNoOp
    /\ Truthy(mp.id)
    /\ mp.title # None
    /\ mp.tags[1] # {}
    /\ mp.tags[1] # fetched.tags
====
